---- MODULE Spec2Model ----
(***************************************************************************)
(* Marker-based segmentation and reconstruction of judgment texts          *)
(* (JudgmentParser in src/parse-judgment.py).                              *)
(*                                                                         *)
(* A text is a sequence of characters.  TLA+ strings are ASCII, so every   *)
(* CJK character of the source is written as a short romanised token:      *)
(*   zhong hua min guo nian yue ri   = the date marker's characters        *)
(*   zhu wen = operative holding, shi4 shi2 = facts, li you = reasoning,    *)
(*   ji, yao ling, pan jue, su song biao di, zheng zhi xiang, yu            *)
(*   u3000 = ideographic space, fwcolon / vcolon = full-width and          *)
(*   vertical colon.                                                       *)
(* Python values whose type the code inspects are tagged pairs             *)
(* <<type name, payload>>.                                                 *)
(***************************************************************************)
EXTENDS Integers, Sequences, FiniteSets, TLC

VARIABLES pc, jfull, result, used, components, rebuilt, reparsed, rebuilt_again,
          loc_lines, loc_flags, loc_positions,
          chk_content, chk_present, chk_matched,
          mode, max_threads, given, fs_in, fs_out, json_files, file_batches,
          workers, total_stats, collected, attempts, outcome

\* the text handed to the existence check, per marker what
\* check_if_flag_exists returned, and what get_matched_flags returned
presencevars == <<chk_content, chk_present, chk_matched>>

\* the arguments and the return value of a call of _find_pattern_positions,
\* and the existence check of the same markers
locvars == <<loc_lines, loc_flags, loc_positions, presencevars>>

\* the state of a run over a directory: the entry point called and its
\* argument, the files as given, the input and output directories, the
\* listing and its batches, each worker's position, step, loaded data and
\* stats, the totals, the futures collected, and per file the number of
\* calls of process_json_file and what the call returned
batchvars == <<mode, max_threads, given, fs_in, fs_out, json_files, file_batches,
               workers, total_stats, collected, attempts, outcome>>

\* the result of parse_judgment on a reconstructed text, and the text
\* reconstruct_judgment makes of that result
roundvars == <<reparsed, rebuilt_again>>

\* the state of a call of parse_judgment and reconstruct_judgment
parservars == <<jfull, result, used, components, rebuilt, roundvars>>

vars == <<pc, jfull, result, used, components, rebuilt, roundvars, locvars, batchvars>>

-----------------------------------------------------------------------------
(* Characters *)

NL == "\n"
Whitespace == {" ", "u3000", NL}
Colons == {"fwcolon", ":", "vcolon"}
Digits == {"1", "2"}

-----------------------------------------------------------------------------
(* Python values *)

\* a value is <<type name, payload>>
PyNone == <<"NoneType", <<>>>>
PyStr(s) == <<"str", s>>
PyInt(n) == <<"int", n>>
PyList(l) == <<"list", l>>
PyDict(d) == <<"dict", d>>
Raise(e) == <<"raise", e>>

TypeOf(x) == x[1]
ValueOf(x) == x[2]

\* bool(x)
Truthy(x) ==
  CASE TypeOf(x) = "NoneType" -> FALSE
    [] TypeOf(x) = "str" -> ValueOf(x) # <<>>
    [] TypeOf(x) = "list" -> ValueOf(x) # <<>>
    [] TypeOf(x) = "int" -> ValueOf(x) # 0
    [] TypeOf(x) = "dict" -> DOMAIN ValueOf(x) # {}

\* dict.get(key, default)
Get(d, key, default) == IF key \in DOMAIN d THEN d[key] ELSE default

-----------------------------------------------------------------------------
(* str.strip, str.split, str.join, list slices *)

RECURSIVE LStrip(_)
LStrip(s) ==
  IF s # <<>> /\ Head(s) \in Whitespace THEN LStrip(Tail(s)) ELSE s

RECURSIVE RStrip(_)
RStrip(s) ==
  IF s # <<>> /\ s[Len(s)] \in Whitespace
    THEN RStrip(SubSeq(s, 1, Len(s) - 1))
    ELSE s

Strip(s) == RStrip(LStrip(s))

\* s.split(sep): cur is the piece being read, i the next character
RECURSIVE SplitFrom(_, _, _, _)
SplitFrom(s, sep, i, cur) ==
  IF i > Len(s) THEN <<cur>>
  ELSE IF s[i] = sep THEN <<cur>> \o SplitFrom(s, sep, i + 1, <<>>)
  ELSE SplitFrom(s, sep, i + 1, Append(cur, s[i]))

Split(s, sep) == SplitFrom(s, sep, 1, <<>>)

\* sep.join(parts)
RECURSIVE Join(_, _)
Join(parts, sep) ==
  IF parts = <<>> THEN <<>>
  ELSE IF Len(parts) = 1 THEN parts[1]
  ELSE parts[1] \o <<sep>> \o Join(Tail(parts), sep)

\* l[a:b] for 0 <= a, 0 <= b (0-based, b exclusive)
PySlice(l, a, b) ==
  LET stop == IF b < Len(l) THEN b ELSE Len(l)
  IN IF a >= stop THEN <<>> ELSE SubSeq(l, a + 1, stop)

-----------------------------------------------------------------------------
(* Regular expressions: a pattern is a sequence of atoms *)

Bol == [k |-> "bol", c |-> {}]                \* ^
Eol == [k |-> "eol", c |-> {}]                \* $
Lit(ch) == [k |-> "lit", c |-> {ch}]          \* re.escape(char)
WsStar == [k |-> "star", c |-> Whitespace]    \* \s*
DotLazy == [k |-> "dots", c |-> {}]           \* .*?
Opt(set) == [k |-> "opt", c |-> set]          \* [...]?

\* does pattern p from atom j match s from character i (1-based) ?
RECURSIVE ReMatchFrom(_, _, _, _, _)
ReMatchFrom(p, j, s, i, flags) ==
  IF j > Len(p) THEN TRUE
  ELSE
    LET a == p[j] IN
    CASE a.k = "bol" ->
           /\ \/ i = 1
              \/ "MULTILINE" \in flags /\ s[i - 1] = NL
           /\ ReMatchFrom(p, j + 1, s, i, flags)
      [] a.k = "eol" ->
           /\ \/ i = Len(s) + 1
              \/ i = Len(s) /\ s[i] = NL
              \/ "MULTILINE" \in flags /\ i <= Len(s) /\ s[i] = NL
           /\ ReMatchFrom(p, j + 1, s, i, flags)
      [] a.k = "lit" ->
           /\ i <= Len(s)
           /\ s[i] \in a.c
           /\ ReMatchFrom(p, j + 1, s, i + 1, flags)
      [] a.k = "star" ->
           \/ /\ i <= Len(s)
              /\ s[i] \in a.c
              /\ ReMatchFrom(p, j, s, i + 1, flags)
           \/ ReMatchFrom(p, j + 1, s, i, flags)
      [] a.k = "dots" ->
           \/ ReMatchFrom(p, j + 1, s, i, flags)
           \/ /\ i <= Len(s)
              /\ "DOTALL" \in flags \/ s[i] # NL
              /\ ReMatchFrom(p, j, s, i + 1, flags)
      [] a.k = "opt" ->
           \/ /\ i <= Len(s)
              /\ s[i] \in a.c
              /\ ReMatchFrom(p, j + 1, s, i + 1, flags)
           \/ ReMatchFrom(p, j + 1, s, i, flags)

\* re.match(pattern, s) is not None
ReMatch(p, s) == ReMatchFrom(p, 1, s, 1, {})

-----------------------------------------------------------------------------
(* JudgmentParser.__init__: the templates *)

FlagDate == <<"zhong", "hua", "min", "guo", "nian", "yue", "ri">>
FlagMain == <<"zhu", "wen">>
FlagFact == <<"shi4", "shi2">>
FlagReason == <<"li", "you">>

special_four_part_pattern == <<FlagDate, FlagMain, FlagFact, FlagReason>>

supported_patterns ==
  << <<FlagDate, FlagMain, <<"shi4", "shi2", "ji", "li", "you">> >>,
     <<FlagDate, FlagMain, <<"shi4", "shi2", "ji", "li", "you", "yao", "ling">> >>,
     <<FlagDate, FlagMain, <<"li", "you", "yao", "ling">> >>,
     <<FlagDate, FlagMain, <<"li", "you">> >>,
     <<FlagDate, FlagMain,
       <<"pan", "jue", "shi4", "shi2", "ji", "li", "you", "yao", "ling">> >>,
     <<FlagDate, FlagMain,
       <<"su", "song", "biao", "di", "ji", "li", "you", "yao", "ling">> >>,
     <<FlagDate, FlagMain,
       <<"zheng", "zhi", "shi4", "xiang", "ji", "li", "you", "yao", "ling">> >>,
     <<FlagDate, FlagMain, <<"shi4", "shi2">> >>,
     <<FlagDate, FlagMain, <<"shi4", "shi2", "yu", "li", "you">> >> >>

\* every marker of the ten templates
AllFlags ==
  {special_four_part_pattern[k] : k \in 1..4}
    \cup {supported_patterns[n][3] : n \in 1..Len(supported_patterns)}

-----------------------------------------------------------------------------
(* The lines the input documents are made of *)

\* a date line with digits, as judgments carry it
DateLine == <<"zhong", "hua", "min", "guo", "1", "nian", "2", "yue", "ri">>
\* a facts heading with leading and inner spacing and a full-width colon
FuzzyFactLine == <<" ", "shi4", "u3000", "shi2", "fwcolon">>
\* ordinary content: a digit after leading blanks
ContentLine == <<" ", "1">>

\* the nine combined labels, in the order of supported_patterns
Labels == [n \in 1..Len(supported_patterns) |-> supported_patterns[n][3]]

\* the lines of the free-form documents
FreeLines ==
  { FlagMain, FlagFact, FlagReason, Labels[1],
    DateLine, FuzzyFactLine, ContentLine }

LinePool == FreeLines \cup {Labels[n] : n \in DOMAIN Labels}

-----------------------------------------------------------------------------
(* _create_pattern *)

\* r'\s*'.join(re.escape(char) for char in chars)
RECURSIVE JoinChars(_)
JoinChars(chars) ==
  IF chars = <<>> THEN <<>>
  ELSE IF Len(chars) = 1 THEN <<Lit(chars[1])>>
  ELSE <<Lit(chars[1]), WsStar>> \o JoinChars(Tail(chars))

\* _create_pattern without the closing anchor of the ordinary markers
_create_pattern_Unanchored(flag) ==
  IF flag = FlagDate
    THEN <<Bol, WsStar>> \o JoinChars(<<"zhong", "hua", "min", "guo">>)
           \o <<DotLazy>> \o JoinChars(<<"nian">>)
           \o <<DotLazy>> \o JoinChars(<<"yue">>)
           \o <<DotLazy>> \o JoinChars(<<"ri">>)
           \o <<WsStar, Eol>>
    ELSE <<Bol, WsStar>> \o JoinChars(flag)
           \o <<WsStar, Opt(Colons), WsStar>>

_create_pattern(flag) ==
  IF flag = FlagDate
    THEN <<Bol, WsStar>> \o JoinChars(<<"zhong", "hua", "min", "guo">>)
           \o <<DotLazy>> \o JoinChars(<<"nian">>)
           \o <<DotLazy>> \o JoinChars(<<"yue">>)
           \o <<DotLazy>> \o JoinChars(<<"ri">>)
           \o <<WsStar, Eol>>
    ELSE <<Bol, WsStar>> \o JoinChars(flag)
           \o <<WsStar, Opt(Colons), WsStar, Eol>>

-----------------------------------------------------------------------------
(* _find_pattern_positions *)

\* re.match(self._create_pattern(flag), line.strip())
LineMatches(flag, line) == ReMatch(_create_pattern(flag), Strip(line))

\* The match is a pure function of (flag, line): its value on the lines the
\* input documents are made of is computed once and looked up afterwards.
MatchMemo == [line \in LinePool |-> {flag \in AllFlags : LineMatches(flag, line)}]

Matches(flag, line) ==
  IF line \in LinePool /\ flag \in AllFlags
    THEN flag \in MatchMemo[line]
    ELSE LineMatches(flag, line)

\* FirstMatch without the break: the last matching line wins
RECURSIVE FirstMatch_NoBreak(_, _, _)
FirstMatch_NoBreak(lines, flag, i) ==
  IF i >= Len(lines) THEN -1
  ELSE LET later == FirstMatch_NoBreak(lines, flag, i + 1)
       IN IF later >= 0 THEN later
          ELSE IF Matches(flag, lines[i + 1]) THEN i
          ELSE -1

\* the inner loop: index (0-based) of the first line from i on whose
\* stripped content matches, -1 when the loop ends without a break
RECURSIVE FirstMatch(_, _, _)
FirstMatch(lines, flag, i) ==
  IF i >= Len(lines) THEN -1
  ELSE IF Matches(flag, lines[i + 1]) THEN i
  ELSE FirstMatch(lines, flag, i + 1)

\* _find_pattern_positions with every requested flag entered in the dict,
\* -1 standing for no match
_find_pattern_positions_Default(lines, pattern_flags) ==
  LET at == [k \in 1..Len(pattern_flags) |->
               FirstMatch(lines, pattern_flags[k], 0)]
  IN [flag \in {pattern_flags[k] : k \in 1..Len(pattern_flags)} |->
        at[CHOOSE k \in 1..Len(pattern_flags) : pattern_flags[k] = flag]]

\* the dict positions: flag -> index, for the flags that matched
_find_pattern_positions(lines, pattern_flags) ==
  LET at == [k \in 1..Len(pattern_flags) |->
               FirstMatch(lines, pattern_flags[k], 0)]
      hit == {k \in 1..Len(pattern_flags) : at[k] >= 0}
  IN [flag \in {pattern_flags[k] : k \in hit} |->
        at[CHOOSE k \in hit : pattern_flags[k] = flag]]

\* all(flag in positions for flag in pattern_flags)
AllIn(positions, pattern_flags) ==
  \A k \in 1..Len(pattern_flags) : pattern_flags[k] \in DOMAIN positions

-----------------------------------------------------------------------------
(* parse_judgment *)

\* FourPartSlices with the Main slice starting on the marker line
FourPartSlices_MainFromMarker(lines, main_pos, fact_pos, reason_pos, date_pos) ==
  [Pre_Information |-> <<0, main_pos>>,
   Main |-> <<main_pos, fact_pos>>,
   Fact |-> <<fact_pos + 1, reason_pos>>,
   Reason |-> <<reason_pos + 1, date_pos>>,
   Post_Information |-> <<date_pos + 1, Len(lines)>>]

\* FourPartSlices with the Post-Information slice starting on the date line
FourPartSlices_PostFromDate(lines, main_pos, fact_pos, reason_pos, date_pos) ==
  [Pre_Information |-> <<0, main_pos>>,
   Main |-> <<main_pos + 1, fact_pos>>,
   Fact |-> <<fact_pos + 1, reason_pos>>,
   Reason |-> <<reason_pos + 1, date_pos>>,
   Post_Information |-> <<date_pos, Len(lines)>>]

\* the slices [start, stop) of lines taken for each section
FourPartSlices(lines, main_pos, fact_pos, reason_pos, date_pos) ==
  [Pre_Information |-> <<0, main_pos>>,
   Main |-> <<main_pos + 1, fact_pos>>,
   Fact |-> <<fact_pos + 1, reason_pos>>,
   Reason |-> <<reason_pos + 1, date_pos>>,
   Post_Information |-> <<date_pos + 1, Len(lines)>>]

\* ThreePartSlices with the Fact-and-Reason slice running through the date line
ThreePartSlices_ThroughDate(lines, main_pos, fact_reason_flag_pos, date_pos) ==
  [Pre_Information |-> <<0, main_pos>>,
   Main |-> <<main_pos + 1, fact_reason_flag_pos>>,
   Fact_and_Reason |-> <<fact_reason_flag_pos + 1, date_pos + 1>>,
   Post_Information |-> <<date_pos + 1, Len(lines)>>]

ThreePartSlices(lines, main_pos, fact_reason_flag_pos, date_pos) ==
  [Pre_Information |-> <<0, main_pos>>,
   Main |-> <<main_pos + 1, fact_reason_flag_pos>>,
   Fact_and_Reason |-> <<fact_reason_flag_pos + 1, date_pos>>,
   Post_Information |-> <<date_pos + 1, Len(lines)>>]

\* '\n'.join(lines[a:b]).strip()
\* Extract without the strip
Extract_Untrimmed(lines, slice) == Join(PySlice(lines, slice[1], slice[2]), NL)

\* '\n'.join(lines[a:b]).strip()
Extract(lines, slice) == Strip(Join(PySlice(lines, slice[1], slice[2]), NL))

NoSelection == [pattern |-> <<>>, positions |-> <<>>, slices |-> <<>>]

FourPartOrder(main_pos, fact_pos, reason_pos, date_pos) ==
  main_pos < fact_pos /\ fact_pos < reason_pos /\ reason_pos < date_pos

\* the special four-part check
SelectFourPart(lines) ==
  LET positions == _find_pattern_positions(lines, special_four_part_pattern)
  IN IF /\ AllIn(positions, special_four_part_pattern)
        /\ FourPartOrder(positions[FlagMain], positions[FlagFact],
                         positions[FlagReason], positions[FlagDate])
       THEN [pattern |-> special_four_part_pattern,
             positions |-> positions,
             slices |-> FourPartSlices(lines, positions[FlagMain],
                                       positions[FlagFact],
                                       positions[FlagReason],
                                       positions[FlagDate])]
       ELSE NoSelection

\* ThreePartOrder that only asks for the date after the operative holding
ThreePartOrder_LabelAnywhere(main_pos, fact_reason_flag_pos, date_pos) ==
  main_pos < date_pos

ThreePartOrder(main_pos, fact_reason_flag_pos, date_pos) ==
  main_pos < fact_reason_flag_pos /\ fact_reason_flag_pos < date_pos

\* SelectThreePart that keeps the last template that validates
RECURSIVE SelectThreePart_LastWins(_, _)
SelectThreePart_LastWins(lines, k) ==
  IF k > Len(supported_patterns) THEN NoSelection
  ELSE
    LET later == SelectThreePart_LastWins(lines, k + 1)
        pattern_flags == supported_patterns[k]
        positions == _find_pattern_positions(lines, pattern_flags)
    IN IF later.pattern # <<>> THEN later
       ELSE IF /\ AllIn(positions, pattern_flags)
               /\ ThreePartOrder(positions[FlagMain],
                                 positions[pattern_flags[3]],
                                 positions[FlagDate])
         THEN [pattern |-> pattern_flags,
               positions |-> positions,
               slices |-> ThreePartSlices(lines, positions[FlagMain],
                                          positions[pattern_flags[3]],
                                          positions[FlagDate])]
         ELSE NoSelection

\* the loop over supported_patterns, from the k-th pattern on
RECURSIVE SelectThreePart(_, _)
SelectThreePart(lines, k) ==
  IF k > Len(supported_patterns) THEN NoSelection
  ELSE
    LET pattern_flags == supported_patterns[k]
        positions == _find_pattern_positions(lines, pattern_flags)
    IN IF /\ AllIn(positions, pattern_flags)
          /\ ThreePartOrder(positions[FlagMain], positions[pattern_flags[3]],
                            positions[FlagDate])
         THEN [pattern |-> pattern_flags,
               positions |-> positions,
               slices |-> ThreePartSlices(lines, positions[FlagMain],
                                          positions[pattern_flags[3]],
                                          positions[FlagDate])]
         ELSE SelectThreePart(lines, k + 1)

\* Select with the three-part loop run before the four-part check
Select_ThreePartFirst(lines) ==
  LET three == SelectThreePart(lines, 1)
  IN IF three.pattern # <<>> THEN three ELSE SelectFourPart(lines)

\* the template the function settles on for these lines, with the marker
\* positions and the slices it cuts
Select(lines) ==
  LET four == SelectFourPart(lines)
  IN IF four.pattern # <<>> THEN four ELSE SelectThreePart(lines, 1)

InvalidInputResult ==
  PyDict([Pre_Information |-> PyStr(<<>>),
          Main |-> PyStr(<<>>),
          Fact_and_Reason |-> PyStr(<<>>),
          Post_Information |-> PyStr(<<>>),
          pattern |-> PyNone,
          error |-> PyStr("Invalid input text")])

\* NoMatchResult with the text trimmed
NoMatchResult_Trimmed(jfull_text) ==
  PyDict([Pre_Information |-> PyStr(<<>>),
          Main |-> PyStr(<<>>),
          Fact_and_Reason |-> PyStr(<<>>),
          Post_Information |-> PyStr(Strip(ValueOf(jfull_text))),
          pattern |-> PyNone,
          error |-> PyStr("No matching pattern found")])

NoMatchResult(jfull_text) ==
  PyDict([Pre_Information |-> PyStr(<<>>),
          Main |-> PyStr(<<>>),
          Fact_and_Reason |-> PyStr(<<>>),
          Post_Information |-> jfull_text,
          pattern |-> PyNone,
          error |-> PyStr("No matching pattern found")])

\* the dict returned for a selection
ResultOf(jfull_text, lines, sel) ==
  IF sel.pattern = special_four_part_pattern
    THEN PyDict([Pre_Information |-> PyStr(Extract(lines, sel.slices.Pre_Information)),
                 Main |-> PyStr(Extract(lines, sel.slices.Main)),
                 Fact |-> PyStr(Extract(lines, sel.slices.Fact)),
                 Reason |-> PyStr(Extract(lines, sel.slices.Reason)),
                 Post_Information |-> PyStr(Extract(lines, sel.slices.Post_Information)),
                 pattern |-> PyList(sel.pattern)])
  ELSE IF sel.pattern # <<>>
    THEN PyDict([Pre_Information |-> PyStr(Extract(lines, sel.slices.Pre_Information)),
                 Main |-> PyStr(Extract(lines, sel.slices.Main)),
                 Fact_and_Reason |-> PyStr(Extract(lines, sel.slices.Fact_and_Reason)),
                 Post_Information |-> PyStr(Extract(lines, sel.slices.Post_Information)),
                 pattern |-> PyList(sel.pattern)])
  ELSE NoMatchResult(jfull_text)

\* ValidInput without the emptiness test
ValidInput_TypeOnly(jfull_text) == TypeOf(jfull_text) = "str"

ValidInput(jfull_text) == Truthy(jfull_text) /\ TypeOf(jfull_text) = "str"

\* one call: the dict it returns and the selection it worked with
ParseRun(jfull_text) ==
  IF ~ValidInput(jfull_text)
    THEN [result |-> InvalidInputResult, used |-> NoSelection]
    ELSE LET lines == Split(ValueOf(jfull_text), NL)
             sel == Select(lines)
         IN [result |-> ResultOf(jfull_text, lines, sel), used |-> sel]

parse_judgment(jfull_text) == ParseRun(jfull_text).result

-----------------------------------------------------------------------------
(* reconstruct_judgment *)

\* value.strip(): only str has the method
StripValue(value) ==
  IF TypeOf(value) = "str" THEN PyStr(Strip(ValueOf(value))) ELSE Raise("AttributeError")

\* len(pattern) of a truthy pattern
PyLen(pattern) ==
  CASE TypeOf(pattern) \in {"str", "list"} -> PyInt(Len(ValueOf(pattern)))
    [] TypeOf(pattern) = "dict" -> PyInt(Cardinality(DOMAIN ValueOf(pattern)))
    [] OTHER -> Raise("TypeError")

\* pattern[i] for a list of str or a str, 0 <= i < len(pattern)
PyItem(pattern, i) ==
  IF TypeOf(pattern) = "str" THEN <<ValueOf(pattern)[i + 1]>> ELSE ValueOf(pattern)[i + 1]

\* FourPartParts with each marker emitted only before non-empty content
FourPartParts_Sparse(parts, pattern, main_content, fact_content, reason_content) ==
  parts \o (IF main_content # <<>>
              THEN <<PyItem(pattern, 1), main_content>> ELSE <<>>)
        \o (IF fact_content # <<>>
              THEN <<PyItem(pattern, 2), fact_content>> ELSE <<>>)
        \o (IF reason_content # <<>>
              THEN <<PyItem(pattern, 3), reason_content>> ELSE <<>>)
        \o <<PyItem(pattern, 0)>>

\* the four-part branch: parts after it
FourPartParts(parts, pattern, main_content, fact_content, reason_content) ==
  parts \o <<PyItem(pattern, 1)>>
        \o (IF main_content # <<>> THEN <<main_content>> ELSE <<>>)
        \o <<PyItem(pattern, 2)>>
        \o (IF fact_content # <<>> THEN <<fact_content>> ELSE <<>>)
        \o <<PyItem(pattern, 3)>>
        \o (IF reason_content # <<>> THEN <<reason_content>> ELSE <<>>)
        \o <<PyItem(pattern, 0)>>

\* the three-part branch: parts after it
ThreePartParts(parts, pattern, main_content, fact_reason) ==
  parts \o <<PyItem(pattern, 1)>>
        \o (IF main_content # <<>> THEN <<main_content>> ELSE <<>>)
        \o <<PyItem(pattern, 2)>>
        \o (IF fact_reason # <<>> THEN <<fact_reason>> ELSE <<>>)
        \o <<PyItem(pattern, 0)>>

\* Finish that leaves out what follows the date line
Finish_WithoutPost(parts, post_info) ==
  PyStr(Join(parts, NL))

\* parts with post_info appended when there is any, joined
Finish(parts, post_info) ==
  PyStr(Join(parts \o (IF post_info # <<>> THEN <<post_info>> ELSE <<>>), NL))

reconstruct_judgment(comp) ==
  IF TypeOf(comp) # "dict" THEN PyStr(<<>>)
  ELSE
    LET c == ValueOf(comp)
        pattern == Get(c, "pattern", PyNone)
        pre_info == StripValue(Get(c, "Pre_Information", PyStr(<<>>)))
        main_content == StripValue(Get(c, "Main", PyStr(<<>>)))
        post_info == StripValue(Get(c, "Post_Information", PyStr(<<>>)))
        fact_content == StripValue(Get(c, "Fact", PyStr(<<>>)))
        reason_content == StripValue(Get(c, "Reason", PyStr(<<>>)))
        fact_reason == StripValue(Get(c, "Fact_and_Reason", PyStr(<<>>)))
        parts == IF ValueOf(pre_info) # <<>> THEN <<ValueOf(pre_info)>> ELSE <<>>
    IN
    IF ~Truthy(pattern) THEN PyStr(<<>>)
    ELSE IF TypeOf(pre_info) = "raise" THEN pre_info
    ELSE IF TypeOf(main_content) = "raise" THEN main_content
    ELSE IF TypeOf(post_info) = "raise" THEN post_info
    ELSE IF pattern = PyList(special_four_part_pattern)
      THEN IF TypeOf(fact_content) = "raise" THEN fact_content
           ELSE IF TypeOf(reason_content) = "raise" THEN reason_content
           ELSE Finish(FourPartParts(parts, pattern, ValueOf(main_content),
                                     ValueOf(fact_content), ValueOf(reason_content)),
                       ValueOf(post_info))
    ELSE IF TypeOf(PyLen(pattern)) = "raise" THEN PyLen(pattern)
    ELSE IF ValueOf(PyLen(pattern)) = 3
      THEN IF TypeOf(fact_reason) = "raise" THEN fact_reason
           ELSE Finish(ThreePartParts(parts, pattern, ValueOf(main_content),
                                      ValueOf(fact_reason)),
                       ValueOf(post_info))
    ELSE Finish(parts, ValueOf(post_info))

-----------------------------------------------------------------------------
(* Inputs *)

MaxLines == 5

\* a content line, or nothing
Maybe(present) == IF present THEN <<ContentLine>> ELSE <<>>

\* the documents laid out as a template expects, with or without content
\* before, between and after the marker lines
FourPartDocuments ==
  { Maybe(c[1]) \o <<FlagMain>> \o Maybe(c[2]) \o <<FlagFact>> \o Maybe(c[3])
      \o <<FlagReason>> \o Maybe(c[4]) \o <<DateLine>> \o Maybe(c[5]) :
    c \in [1..5 -> BOOLEAN] }

ThreePartDocuments ==
  { Maybe(c[1]) \o <<FlagMain>> \o Maybe(c[2]) \o <<Labels[n]>> \o Maybe(c[3])
      \o <<DateLine>> \o Maybe(c[4]) :
    c \in [1..4 -> BOOLEAN], n \in DOMAIN Labels }

\* the documents with two combined labels between the operative-holding
\* line and the date line
TwoLabelDocuments ==
  { <<FlagMain, Labels[a], Labels[b], DateLine>> :
    a \in DOMAIN Labels, b \in DOMAIN Labels }

\* every document of at most MaxLines lines over FreeLines, and the
\* documents above
Documents ==
  UNION {[1..n -> FreeLines] : n \in 1..MaxLines}
    \cup FourPartDocuments \cup ThreePartDocuments \cup TwoLabelDocuments

NotText == {PyNone, PyStr(<<>>), PyInt(0), PyInt(7), PyList(<<>>),
            PyList(<<FlagMain>>)}

Nothing == <<"unset", <<>>>>

\* no second pass over a reconstructed text is under way
NoRound ==
  /\ reparsed = Nothing
  /\ rebuilt_again = Nothing

\* no existence check is under way
NoPresence ==
  /\ chk_content = Nothing
  /\ chk_present = Nothing
  /\ chk_matched = Nothing

\* no call of _find_pattern_positions on its own is under way
NoLocate ==
  /\ loc_lines = <<>>
  /\ loc_flags = <<>>
  /\ loc_positions = Nothing
  /\ NoPresence

\* no run over a directory is under way
NoBatch ==
  /\ mode = "none"
  /\ max_threads = 0
  /\ given = <<>>
  /\ fs_in = <<>>
  /\ fs_out = <<>>
  /\ json_files = <<>>
  /\ file_batches = <<>>
  /\ workers = <<>>
  /\ total_stats = <<>>
  /\ collected = {}
  /\ attempts = <<>>
  /\ outcome = <<>>

-----------------------------------------------------------------------------
(* The parser applied to one input, then the reconstructor to its result *)

Init ==
  /\ pc = "input"
  /\ \/ \E doc \in Documents : jfull = PyStr(Join(doc, NL))
     \/ jfull \in NotText
  /\ result = Nothing
  /\ used = NoSelection
  /\ components = Nothing
  /\ rebuilt = Nothing
  /\ NoRound
  /\ NoLocate
  /\ NoBatch

\* result = parser.parse_judgment(jfull); used records the template,
\* marker positions and slices the call worked with
Parse ==
  /\ pc = "input"
  /\ pc' = "parsed"
  /\ \E run \in {ParseRun(jfull)} :
       result' = run.result /\ used' = run.used
  /\ UNCHANGED <<jfull, components, rebuilt, roundvars, locvars, batchvars>>

\* rebuilt = parser.reconstruct_judgment(result)
Reconstruct ==
  /\ pc = "parsed"
  /\ pc' = "rebuilt"
  /\ components' = result
  /\ rebuilt' = reconstruct_judgment(result)
  /\ UNCHANGED <<jfull, result, used, roundvars, locvars, batchvars>>

Next == Parse \/ Reconstruct

Spec == Init /\ [][Next]_vars

-----------------------------------------------------------------------------
(* The reconstructor applied to a record that need not come from the parser *)

ContentKeys ==
  {"Pre_Information", "Main", "Fact", "Reason", "Fact_and_Reason",
   "Post_Information"}

\* a text for each field, with blanks or a newline around it
FieldText ==
  [Pre_Information |-> <<" ", "p">>,
   Main |-> <<"m", NL>>,
   Fact |-> <<"f">>,
   Reason |-> <<"r", " ">>,
   Fact_and_Reason |-> <<NL, "f", "r">>,
   Post_Information |-> <<"q", " ">>]

\* a field is absent, empty, a text, or not a text
FieldChoices == {"absent", "empty", "text", "none"}

FieldValue(key, choice) ==
  CASE choice = "empty" -> PyStr(<<>>)
    [] choice = "text" -> PyStr(FieldText[key])
    [] choice = "none" -> PyNone

PatternInputs ==
  {PyNone, PyList(<<>>), PyStr(<<>>), PyInt(5), PyStr(<<"a", "b", "c">>),
   PyList(special_four_part_pattern),
   PyList(<<FlagDate, FlagMain>>),
   PyList(<<<<"a">>, <<"b">>, <<"c">>>>),
   PyList(<<FlagMain, FlagDate, FlagFact, FlagReason>>)}
    \cup {PyList(supported_patterns[n]) : n \in 1..Len(supported_patterns)}

\* the dict with the chosen content fields and this pattern
RecordOf(choice, pattern) ==
  [k \in {key \in ContentKeys : choice[key] # "absent"} \cup {"pattern"} |->
     IF k = "pattern" THEN pattern ELSE FieldValue(k, choice[k])]

\* the dict with the chosen content fields and no pattern entry
RecordWithoutPattern(choice) ==
  [k \in {key \in ContentKeys : choice[key] # "absent"} |->
     FieldValue(k, choice[k])]

NotRecords == {PyNone, PyStr(FlagMain), PyInt(7), PyList(special_four_part_pattern)}

InitGiven ==
  /\ pc = "given"
  /\ jfull = PyNone
  /\ result = Nothing
  /\ used = NoSelection
  /\ \/ \E choice \in [ContentKeys -> FieldChoices], pattern \in PatternInputs :
          components = PyDict(RecordOf(choice, pattern))
     \/ \E choice \in [ContentKeys -> FieldChoices] :
          components = PyDict(RecordWithoutPattern(choice))
     \/ components \in NotRecords
  /\ rebuilt = Nothing
  /\ NoRound
  /\ NoLocate
  /\ NoBatch

\* rebuilt = parser.reconstruct_judgment(components)
ReconstructGiven ==
  /\ pc = "given"
  /\ pc' = "rebuilt"
  /\ rebuilt' = reconstruct_judgment(components)
  /\ UNCHANGED <<jfull, result, used, components, roundvars, locvars, batchvars>>

NextGiven == ReconstructGiven

SpecGiven == InitGiven /\ [][NextGiven]_vars

-----------------------------------------------------------------------------
(* Properties.  They are stated over the input and the output alone: the    *)
(* lines of the input, the first line that matches each marker's rule, and  *)
(* the returned dict.  A formula binds the located positions once, as       *)
(* \A at \in {Located} : ...                                                *)

\* the input is a non-empty text
UsableText == TypeOf(jfull) = "str" /\ ValueOf(jfull) # <<>>

\* parse_judgment has just returned for a non-empty text
ParsedText == pc = "parsed" /\ UsableText

\* the lines of the input text
Lines == Split(ValueOf(jfull), NL)

\* the templates as the design names them
DateMarker == <<"zhong", "hua", "min", "guo", "nian", "yue", "ri">>
MainMarker == <<"zhu", "wen">>
FactMarker == <<"shi4", "shi2">>
ReasonMarker == <<"li", "you">>

FourMarkerTemplate == <<DateMarker, MainMarker, FactMarker, ReasonMarker>>

DeclaredLabels ==
  << <<"shi4", "shi2", "ji", "li", "you">>,
     <<"shi4", "shi2", "ji", "li", "you", "yao", "ling">>,
     <<"li", "you", "yao", "ling">>,
     <<"li", "you">>,
     <<"pan", "jue", "shi4", "shi2", "ji", "li", "you", "yao", "ling">>,
     <<"su", "song", "biao", "di", "ji", "li", "you", "yao", "ling">>,
     <<"zheng", "zhi", "shi4", "xiang", "ji", "li", "you", "yao", "ling">>,
     <<"shi4", "shi2">>,
     <<"shi4", "shi2", "yu", "li", "you">> >>

ThreeMarkerTemplate(n) == <<DateMarker, MainMarker, DeclaredLabels[n]>>

Vocabulary ==
  {DateMarker, MainMarker, FactMarker, ReasonMarker}
    \cup {DeclaredLabels[n] : n \in DOMAIN DeclaredLabels}

\* the indices (0-based) of the lines that match the marker's rule
MatchSet(lines, flag) ==
  {i \in 0..(Len(lines) - 1) : Matches(flag, lines[i + 1])}

Least(S) == CHOOSE i \in S : \A j \in S : i <= j

\* for each marker, the first line that matches its rule, -1 when none does
Located ==
  LET lines == Lines
  IN [flag \in Vocabulary |->
        LET set == MatchSet(lines, flag)
        IN IF set = {} THEN -1 ELSE Least(set)]

\* all four markers located, operative-holding < facts < reasoning < date
FourValidates(at) ==
  /\ 0 <= at[MainMarker]
  /\ at[MainMarker] < at[FactMarker]
  /\ at[FactMarker] < at[ReasonMarker]
  /\ at[ReasonMarker] < at[DateMarker]

\* the n-th three-marker template: operative-holding < label < date
ThreeValidates(at, n) ==
  /\ 0 <= at[MainMarker]
  /\ at[MainMarker] < at[DeclaredLabels[n]]
  /\ at[DeclaredLabels[n]] < at[DateMarker]

ThreeValid(at) == {n \in 1..Len(DeclaredLabels) : ThreeValidates(at, n)}

\* the fields of the returned dict
Field(name) == ValueOf(result)[name]

EmptyText == PyStr(<<>>)

\* C1: whenever all four markers of the four-marker template are located
\* with operative-holding < facts < reasoning < date, the result's template
\* is the four-marker one, also when three-marker templates validate on the
\* same document.
C1_FourMarkerPriority ==
  ParsedText =>
    \A at \in {Located} :
      FourValidates(at) => Field("pattern") = PyList(FourMarkerTemplate)

\* C1 witness: a parsed document on which the four-marker template and the
\* first three-marker template (the combined facts-and-reasoning label)
\* both validate.
C1_Witness ==
  /\ pc = "parsed"
  /\ UsableText
  /\ \E at \in {Located} : FourValidates(at) /\ ThreeValidates(at, 1)
  /\ Field("pattern") = PyList(FourMarkerTemplate)

\* C3: when the four-marker template does not validate and some three-marker
\* template does, the result's template is the first of the nine, in their
\* declared order, that validates.
C3_FirstThreeMarkerInOrder ==
  ParsedText =>
    \A at \in {Located} :
      ~FourValidates(at) =>
        \A valid \in {ThreeValid(at)} :
          valid # {} =>
            Field("pattern") = PyList(ThreeMarkerTemplate(Least(valid)))

\* C3 witness: the four-marker template does not validate, two three-marker
\* templates do, and the label of the one later in the declared order comes
\* first in the document.
C3_Witness ==
  /\ pc = "parsed"
  /\ UsableText
  /\ \E at \in {Located} :
       /\ ~FourValidates(at)
       /\ \E a \in ThreeValid(at), b \in ThreeValid(at) :
            /\ a < b
            /\ at[DeclaredLabels[b]] < at[DeclaredLabels[a]]
            /\ Field("pattern") = PyList(ThreeMarkerTemplate(a))

\* what a NoPatternMatch result must be for the input text
NoPatternMatchResult ==
  PyDict([Pre_Information |-> EmptyText,
          Main |-> EmptyText,
          Fact_and_Reason |-> EmptyText,
          Post_Information |-> jfull,
          pattern |-> PyNone,
          error |-> PyStr("No matching pattern found")])

\* C4: when none of the ten templates validates on a non-empty text, the
\* result has the whole input text, unchanged, as post-information, every
\* other content field empty, a null template and the NoPatternMatch tag.
C4_NoPatternMatchKeepsText ==
  ParsedText =>
    \A at \in {Located} :
      (~FourValidates(at) /\ ThreeValid(at) = {})
        => result = NoPatternMatchResult

\* C4 witness: no template validates on a text that trimming would change.
C4_Witness ==
  /\ pc = "parsed"
  /\ UsableText
  /\ \E at \in {Located} : ~FourValidates(at) /\ ThreeValid(at) = {}
  /\ Strip(ValueOf(jfull)) # ValueOf(jfull)
  /\ Field("Post_Information") = jfull

\* C5: when the first date line lies before the first operative-holding
\* line, the result is NoPatternMatch with the input text as
\* post-information, whatever other marker lines follow.
C5_DateBeforeMainNoMatch ==
  ParsedText =>
    \A at \in {Located} :
      (0 <= at[DateMarker] /\ at[DateMarker] < at[MainMarker])
        => result = NoPatternMatchResult

\* C5 witness: a date line first, then operative-holding, facts and
\* reasoning lines in order, then a second date line after them all.
C5_Witness ==
  /\ pc = "parsed"
  /\ UsableText
  /\ \E at \in {Located} :
       /\ 0 <= at[DateMarker]
       /\ at[DateMarker] < at[MainMarker]
       /\ at[MainMarker] < at[FactMarker]
       /\ at[FactMarker] < at[ReasonMarker]
       /\ \E i \in MatchSet(Lines, DateMarker) : at[ReasonMarker] < i
  /\ result = NoPatternMatchResult

\* what an InvalidInput result must be
InvalidInputExpected ==
  PyDict([Pre_Information |-> EmptyText,
          Main |-> EmptyText,
          Fact_and_Reason |-> EmptyText,
          Post_Information |-> EmptyText,
          pattern |-> PyNone,
          error |-> PyStr("Invalid input text")])

\* C6: for an input that is None, not a text, or the empty text, the result
\* has every content field empty, a null template and the InvalidInput tag,
\* which differs from the NoPatternMatch tag.
C6_InvalidInputAllEmpty ==
  (pc = "parsed" /\ ~UsableText)
    => /\ result = InvalidInputExpected
       /\ Field("error") # PyStr("No matching pattern found")

\* C6 witness: the parser has returned for the empty text.
C6_Witness ==
  /\ pc = "parsed"
  /\ jfull = PyStr(<<>>)
  /\ result = InvalidInputExpected

\* the line indices (0-based) a slice [start, stop) takes
SliceRange(lines, slice) ==
  {i \in 0..(Len(lines) - 1) : slice[1] <= i /\ i < slice[2]}

\* lines start..stop-1 (0-based) joined by newline and trimmed
TrimmedJoin(lines, start, stop) ==
  Strip(Join(SubSeq(lines, start + 1, stop), NL))

\* the slices the call cut are pairwise disjoint, cover exactly the lines
\* that are not in markers, and each returned section is the trimmed join
\* of the lines of its slice
SectionsPartition(lines, markers) ==
  /\ \A i \in 0..(Len(lines) - 1) :
       Cardinality({k \in DOMAIN used.slices :
                      i \in SliceRange(lines, used.slices[k])})
         = IF i \in markers THEN 0 ELSE 1
  /\ \A k \in DOMAIN used.slices :
       /\ used.slices[k][2] <= Len(lines)
       /\ k \in DOMAIN ValueOf(result)
       /\ Field(k) = PyStr(TrimmedJoin(lines, used.slices[k][1],
                                       used.slices[k][2]))

FourSections == {"Pre_Information", "Main", "Fact", "Reason", "Post_Information"}
ThreeSections == {"Pre_Information", "Main", "Fact_and_Reason", "Post_Information"}

\* the indices (0-based) of the lines equal to the phrase
EqualSet(lines, phrase) == {i \in 0..(Len(lines) - 1) : lines[i + 1] = phrase}

\* C2 as stated: exactly one line equal to the operative-holding phrase,
\* exactly one equal to the facts phrase, exactly one equal to the reasoning
\* phrase and one line matching the date rule, in that order, give the
\* four-marker template and sections that partition the non-marker lines.
C2_ExactPhraseLinesGiveFourMarker ==
  ParsedText =>
    \A lines \in {Lines} :
      \A m \in EqualSet(lines, MainMarker), f \in EqualSet(lines, FactMarker),
         r \in EqualSet(lines, ReasonMarker), d \in MatchSet(lines, DateMarker) :
        (/\ EqualSet(lines, MainMarker) = {m}
         /\ EqualSet(lines, FactMarker) = {f}
         /\ EqualSet(lines, ReasonMarker) = {r}
         /\ MatchSet(lines, DateMarker) = {d}
         /\ m < f /\ f < r /\ r < d)
          => /\ Field("pattern") = PyList(FourMarkerTemplate)
             /\ DOMAIN used.slices = FourSections
             /\ SectionsPartition(lines, {m, f, r, d})

\* C2 amended: exactly one line matching the operative-holding marker's
\* rule, exactly one matching the facts rule, exactly one matching the
\* reasoning rule and exactly one matching the date rule, in that order,
\* give the four-marker template and sections that do not overlap and take
\* exactly the lines other than those four.
C2_SingleMatchingLinesGiveFourMarker ==
  ParsedText =>
    \A lines \in {Lines} :
      \A m \in MatchSet(lines, MainMarker), f \in MatchSet(lines, FactMarker),
         r \in MatchSet(lines, ReasonMarker), d \in MatchSet(lines, DateMarker) :
        (/\ MatchSet(lines, MainMarker) = {m}
         /\ MatchSet(lines, FactMarker) = {f}
         /\ MatchSet(lines, ReasonMarker) = {r}
         /\ MatchSet(lines, DateMarker) = {d}
         /\ m < f /\ f < r /\ r < d)
          => /\ Field("pattern") = PyList(FourMarkerTemplate)
             /\ DOMAIN used.slices = FourSections
             /\ SectionsPartition(lines, {m, f, r, d})

\* C2 witness: a parsed document with one matching line per marker, in
\* order, content in every section, and the four-marker template selected.
C2_Witness ==
  /\ pc = "parsed"
  /\ UsableText
  /\ \E at \in {Located} :
       /\ MatchSet(Lines, MainMarker) = {at[MainMarker]}
       /\ MatchSet(Lines, FactMarker) = {at[FactMarker]}
       /\ MatchSet(Lines, ReasonMarker) = {at[ReasonMarker]}
       /\ MatchSet(Lines, DateMarker) = {at[DateMarker]}
       /\ FourValidates(at)
  /\ Field("pattern") = PyList(FourMarkerTemplate)
  /\ \A k \in FourSections : Field(k) # EmptyText

\* the parse succeeded: a template was selected
Successful == ParsedText /\ Field("pattern") # PyNone

\* the marker lines of the selected template
TemplateMarkerLines(at) ==
  {at[ValueOf(Field("pattern"))[k]] : k \in 1..Len(ValueOf(Field("pattern")))}

\* C10: in every successful parse result the sections' line ranges are
\* pairwise disjoint and, with the selected template's marker lines, cover
\* every line index of the document exactly once.
C10_SectionsAndMarkersPartition ==
  Successful =>
    /\ DOMAIN used.slices =
         (IF Field("pattern") = PyList(FourMarkerTemplate)
            THEN FourSections ELSE ThreeSections)
    /\ \A at \in {Located} : SectionsPartition(Lines, TemplateMarkerLines(at))

\* C10 witness: a successful three-marker parse with a line in every
\* section.
C10_Witness ==
  /\ pc = "parsed"
  /\ UsableText
  /\ Field("pattern") = PyList(ThreeMarkerTemplate(7))
  /\ \A k \in ThreeSections : Field(k) # EmptyText

Chars(text) == {text[i] : i \in 1..Len(text)}

\* the text returned by reconstruct_judgment for a four-marker parse result
RebuiltFourMarker ==
  /\ pc = "rebuilt"
  /\ UsableText
  /\ Field("pattern") = PyList(FourMarkerTemplate)

\* the line that matched the date rule
MatchedDateLine == Lines[Located[DateMarker] + 1]

\* the canonical date phrase is a line of the rebuilt text
DatePhraseEmitted ==
  /\ TypeOf(rebuilt) = "str"
  /\ \E i \in 1..Len(Split(ValueOf(rebuilt), NL)) :
       Split(ValueOf(rebuilt), NL)[i] = DateMarker

\* C9 as stated: for a four-marker parse, the rebuilt text carries the
\* canonical date phrase and no digit of the matched date line occurs
\* anywhere in it.
C9_NoDateDigitAnywhere ==
  RebuiltFourMarker =>
    /\ DatePhraseEmitted
    /\ Chars(MatchedDateLine) \cap Digits \cap Chars(ValueOf(rebuilt)) = {}

\* C9 amended: for a four-marker parse, the rebuilt text carries the
\* canonical date phrase, and a digit of the matched date line occurs in it
\* only if that digit also occurs in another line of the document.
C9_DateDigitsOnlyFromOtherLines ==
  RebuiltFourMarker =>
    /\ DatePhraseEmitted
    /\ \A digit \in Chars(MatchedDateLine) \cap Digits \cap Chars(ValueOf(rebuilt)) :
         \E i \in 0..(Len(Lines) - 1) :
           i # Located[DateMarker] /\ digit \in Chars(Lines[i + 1])

\* C9 witness: a rebuilt four-marker document whose date line has digits,
\* none of which is in the rebuilt text.
C9_Witness ==
  /\ RebuiltFourMarker
  /\ Chars(MatchedDateLine) \cap Digits # {}
  /\ Chars(MatchedDateLine) \cap Digits \cap Chars(ValueOf(rebuilt)) = {}
  /\ DatePhraseEmitted

-----------------------------------------------------------------------------
(* Properties of reconstruct_judgment on a given record *)

\* the record handed to reconstruct_judgment is a dict
IsRecord == TypeOf(components) = "dict"

\* the entry of the record under key, None when there is none
Entry(key) ==
  IF key \in DOMAIN ValueOf(components) THEN ValueOf(components)[key] ELSE PyNone

\* every content field present in the record is a text
TextFields ==
  \A key \in ContentKeys \cap DOMAIN ValueOf(components) :
    TypeOf(ValueOf(components)[key]) = "str"

\* the trimmed text of a field, empty when the field is absent
Content(key) ==
  IF key \in DOMAIN ValueOf(components)
    THEN Strip(ValueOf(ValueOf(components)[key]))
    ELSE <<>>

\* a content: one part when it is not empty, none otherwise
IfAny(text) == IF text = <<>> THEN <<>> ELSE <<text>>

TenTemplates ==
  {FourMarkerTemplate} \cup {ThreeMarkerTemplate(n) : n \in DOMAIN DeclaredLabels}

\* the record carries one of the ten templates and text fields
WellFormed ==
  /\ IsRecord
  /\ TypeOf(Entry("pattern")) = "list"
  /\ ValueOf(Entry("pattern")) \in TenTemplates
  /\ TextFields

\* the parts the design lists for the record, in order
ExpectedParts ==
  IF Entry("pattern") = PyList(FourMarkerTemplate)
    THEN IfAny(Content("Pre_Information"))
           \o <<MainMarker>> \o IfAny(Content("Main"))
           \o <<FactMarker>> \o IfAny(Content("Fact"))
           \o <<ReasonMarker>> \o IfAny(Content("Reason"))
           \o <<DateMarker>> \o IfAny(Content("Post_Information"))
    ELSE IfAny(Content("Pre_Information"))
           \o <<MainMarker>> \o IfAny(Content("Main"))
           \o <<ValueOf(Entry("pattern"))[3]>> \o IfAny(Content("Fact_and_Reason"))
           \o <<DateMarker>> \o IfAny(Content("Post_Information"))

\* the marker phrases of the record's template, in the order of emission
MarkerPhrases ==
  IF Entry("pattern") = PyList(FourMarkerTemplate)
    THEN <<MainMarker, FactMarker, ReasonMarker, DateMarker>>
    ELSE <<MainMarker, ValueOf(Entry("pattern"))[3], DateMarker>>

\* the contents the record's template uses are all empty
AllContentEmpty ==
  \A key \in (IF Entry("pattern") = PyList(FourMarkerTemplate)
                THEN FourSections ELSE ThreeSections) :
    Content(key) = <<>>

\* C7: for a record with a four-marker or three-marker template the rebuilt
\* text is, joined by newlines: pre-information if not empty, the
\* operative-holding phrase, main content if not empty, the secondary
\* marker phrase, its content if not empty, for four-marker the reasoning
\* phrase and reason content if not empty, the date phrase, post-information
\* if not empty; with all content empty its lines are exactly the template's
\* marker phrases, each once.
C7_ReconstructOrder ==
  (pc = "rebuilt" /\ WellFormed)
    => /\ rebuilt = PyStr(Join(ExpectedParts, NL))
       /\ AllContentEmpty => Split(ValueOf(rebuilt), NL) = MarkerPhrases

\* C7 witness: a four-marker record with no content at all has been rebuilt
\* into its four marker phrases.
C7_Witness ==
  /\ pc = "rebuilt"
  /\ WellFormed
  /\ Entry("pattern") = PyList(FourMarkerTemplate)
  /\ AllContentEmpty
  /\ rebuilt = PyStr(Join(<<MainMarker, FactMarker, ReasonMarker, DateMarker>>, NL))

\* the record is not well formed or has no template: not a dict, a null or
\* empty template, a template that is none of the ten, or a content field
\* that is not a text
Malformed ==
  \/ ~IsRecord
  \/ /\ IsRecord
     /\ \/ ~Truthy(Entry("pattern"))
        \/ TypeOf(Entry("pattern")) # "list"
        \/ ValueOf(Entry("pattern")) \notin TenTemplates
        \/ ~TextFields

\* C8: reconstruct_judgment returns the empty text, without a fault, for
\* every input that is not a well-formed record or whose template is absent
\* or null.
C8_MalformedGivesEmptyText ==
  (pc = "rebuilt" /\ Malformed) => rebuilt = EmptyText

-----------------------------------------------------------------------------
(* Marker lines and section content *)

\* the line indices (0-based) that some returned section was cut from
ContentLines(lines) ==
  UNION {SliceRange(lines, used.slices[k]) : k \in DOMAIN used.slices}

\* the line indices (0-based) that match the rule of some marker of the
\* vocabulary
StructuralMarkerLines(lines) ==
  UNION {MatchSet(lines, flag) : flag \in Vocabulary}

\* C11: in every successful parse result no line that matches the rule of a
\* marker of the vocabulary (repeated occurrences and markers outside the
\* selected template included) lies in the line range of a section.
C11_NoMarkerLineInContent ==
  Successful =>
    \A lines \in {Lines} :
      ContentLines(lines) \cap StructuralMarkerLines(lines) = {}

-----------------------------------------------------------------------------
(* _find_pattern_positions called on its own: positions =                  *)
(* parser._find_pattern_positions(lines, pattern_flags)                    *)

MaxChars == 5
MaxLocateLines == 3

\* the characters the one-line inputs are written with: the characters of
\* the operative-holding marker, blanks, the three colons and a digit
LineAlphabet == {"zhu", "wen", " ", "u3000", "fwcolon", ":", "vcolon", "1"}

\* every line of at most MaxChars characters
CharLines == UNION {[1..n -> LineAlphabet] : n \in 0..MaxChars}

\* every list of at most MaxLocateLines lines over FreeLines
LocateDocuments == UNION {[1..n -> FreeLines] : n \in 0..MaxLocateLines}

\* the flag lists asked for on one-line inputs
OrdinaryRequests == {<<FlagMain>>, <<FlagFact, FlagMain>>}

\* the flag lists asked for on documents: the ten templates, single flags,
\* a repeated flag, a permuted template and the empty list
Requests ==
  {special_four_part_pattern}
    \cup {supported_patterns[n] : n \in 1..Len(supported_patterns)}
    \cup {<<flag>> : flag \in {FlagDate, FlagMain, FlagFact, FlagReason}}
    \cup {<<FlagFact, FlagFact>>, <<FlagReason, FlagFact, FlagMain>>, <<>>}

InitLocate ==
  /\ pc = "locate"
  /\ jfull = PyNone
  /\ result = Nothing
  /\ used = NoSelection
  /\ components = Nothing
  /\ rebuilt = Nothing
  /\ NoRound
  /\ \/ \E line \in CharLines, flags \in OrdinaryRequests :
          loc_lines = <<line>> /\ loc_flags = flags
     \/ \E doc \in LocateDocuments, flags \in Requests :
          loc_lines = doc /\ loc_flags = flags
  /\ loc_positions = Nothing
  /\ NoPresence
  /\ NoBatch

\* positions = self._find_pattern_positions(lines, pattern_flags)
Locate ==
  /\ pc = "locate"
  /\ pc' = "located"
  /\ loc_positions' = _find_pattern_positions(loc_lines, loc_flags)
  /\ UNCHANGED <<jfull, result, used, components, rebuilt, roundvars,
                 loc_lines, loc_flags, presencevars, batchvars>>

NextLocate == Locate

SpecLocate == InitLocate /\ [][NextLocate]_vars

-----------------------------------------------------------------------------
(* The form of a recognised marker line *)

BlankChars == {" ", "u3000", NL}
Separators == {"fwcolon", ":", "vcolon"}

NotBlank(ch) == ch \notin BlankChars

\* the line without its last character when that is a separator
WithoutSeparator(line) ==
  IF line # <<>> /\ line[Len(line)] \in Separators
    THEN SubSeq(line, 1, Len(line) - 1)
    ELSE line

\* the text without the blanks it ends with
RECURSIVE WithoutTrailingBlanks(_)
WithoutTrailingBlanks(text) ==
  IF text # <<>> /\ text[Len(text)] \in BlankChars
    THEN WithoutTrailingBlanks(SubSeq(text, 1, Len(text) - 1))
    ELSE text

\* the marker's characters in order, blanks between consecutive characters
\* only, and nothing else
SpacedMarker(marker, text) ==
  /\ text # <<>>
  /\ text[1] \notin BlankChars
  /\ text[Len(text)] \notin BlankChars
  /\ SelectSeq(text, NotBlank) = marker

\* the form as stated: spaced marker, then at most one separator
StatedForm(marker, line) == SpacedMarker(marker, WithoutSeparator(line))

\* the form with blanks allowed before the separator as well
FormWithBlanksBeforeSeparator(marker, line) ==
  SpacedMarker(marker, WithoutTrailingBlanks(WithoutSeparator(line)))

\* the call has returned
LocateReturned == pc = "located"

\* the requested flags other than the date marker
OrdinaryRequested ==
  {loc_flags[k] : k \in 1..Len(loc_flags)} \ {DateMarker}

\* the trimmed lines of the call
TrimmedLines == {Strip(loc_lines[i]) : i \in 1..Len(loc_lines)}

\* C12 as stated: an ordinary marker is found exactly when some trimmed line
\* is the marker's characters in order with blanks between consecutive
\* characters only, optionally followed by one separator.
C12_RecognisedIffStatedForm ==
  LocateReturned =>
    \A marker \in OrdinaryRequested :
      marker \in DOMAIN loc_positions
        <=> \E line \in TrimmedLines : StatedForm(marker, line)

\* C12 amended: an ordinary marker is found exactly when some trimmed line
\* is the marker's characters in order with blanks between consecutive
\* characters and between the last character and the separator, optionally
\* followed by one separator.
C12_RecognisedIffSpacedForm ==
  LocateReturned =>
    \A marker \in OrdinaryRequested :
      marker \in DOMAIN loc_positions
        <=> \E line \in TrimmedLines :
              FormWithBlanksBeforeSeparator(marker, line)

\* C12 witness: the operative-holding marker written with a full-width space
\* between its characters and a blank before a full-width colon is found.
C12_Witness ==
  /\ pc = "located"
  /\ loc_lines = << <<"zhu", "u3000", "wen", " ", "fwcolon">> >>
  /\ loc_flags = <<FlagMain>>
  /\ MainMarker \in DOMAIN loc_positions

\* the flags the call was asked for
Requested == {loc_flags[k] : k \in 1..Len(loc_flags)}

\* the returned map holds exactly the requested markers that some line
\* matches, each at the first such line
FirstMatchMap ==
  /\ DOMAIN loc_positions =
       {flag \in Requested : MatchSet(loc_lines, flag) # {}}
  /\ \A flag \in DOMAIN loc_positions :
       loc_positions[flag] = Least(MatchSet(loc_lines, flag))

\* C18: the map _find_pattern_positions returns holds, for each requested
\* marker that some line matches, the index of the first such line, whatever
\* later lines match and whatever other markers were requested; a marker no
\* line matches is absent from the map; the list of lines is left as it was.
C18_FirstMatchPerMarker ==
  /\ [](LocateReturned => FirstMatchMap)
  /\ [][loc_lines' = loc_lines]_vars

\* C18 witness: a call that asked for reasoning, facts and operative holding
\* on lines where facts matches twice, operative holding once after it and
\* reasoning never.
C18_Witness ==
  /\ pc = "located"
  /\ loc_flags = <<FlagReason, FlagFact, FlagMain>>
  /\ loc_lines = <<FuzzyFactLine, FlagMain, FlagFact>>
  /\ loc_positions = (FactMarker :> 0) @@ (MainMarker :> 1)

-----------------------------------------------------------------------------
(* The order of the located marker lines, and the sections between them *)

\* the selected template as the result carries it
SelectedTemplate == ValueOf(Field("pattern"))

\* the positions of the markers of a list are strictly increasing
Increasing(at, markers) ==
  \A k \in 1..(Len(markers) - 1) : at[markers[k]] < at[markers[k + 1]]

\* the selected template's markers, the date marker taken last
DocumentOrder(template) == Tail(template) \o <<template[1]>>

\* C19 as stated: in every successful parse result the located positions of
\* the selected template's markers are strictly increasing in the order the
\* template lists them (date, operative holding, ...).
C19_IncreasingInListedOrder ==
  Successful =>
    \A at \in {Located} : Increasing(at, SelectedTemplate)

\* C19 amended: in every successful parse result the located positions of
\* the selected template's markers are strictly increasing when the markers
\* are taken in the order operative holding, facts or combined label,
\* reasoning (four-marker only), date.
C19_IncreasingInDocumentOrder ==
  Successful =>
    \A at \in {Located} :
      /\ \A k \in 1..Len(SelectedTemplate) : at[SelectedTemplate[k]] >= 0
      /\ Increasing(at, DocumentOrder(SelectedTemplate))

\* C19 witness: a successful three-marker parse of a document whose
\* combined-label line is matched a second time after the date line.
C19_Witness ==
  /\ pc = "parsed"
  /\ UsableText
  /\ Field("pattern") = PyList(ThreeMarkerTemplate(1))
  /\ \E at \in {Located} :
       \E later \in MatchSet(Lines, DeclaredLabels[1]) : later > at[DateMarker]

\* the second marker of the selected template: facts, or the combined label
SecondMarker == SelectedTemplate[3]

\* C20: in a successful parse each section is the newline-join, trimmed, of
\* the lines below the operative-holding line (pre-information), between it
\* and the facts or combined-label line (main), between the facts and
\* reasoning lines (fact) and the reasoning and date lines (reason) for
\* four-marker, between the combined-label and date lines (fact-and-reason)
\* for three-marker, and above the date line (post-information).
C20_SectionsBetweenMarkerLines ==
  Successful =>
    \A at \in {Located}, lines \in {Lines} :
      /\ Field("Pre_Information") = PyStr(TrimmedJoin(lines, 0, at[MainMarker]))
      /\ Field("Main") =
           PyStr(TrimmedJoin(lines, at[MainMarker] + 1, at[SecondMarker]))
      /\ Field("Post_Information") =
           PyStr(TrimmedJoin(lines, at[DateMarker] + 1, Len(lines)))
      /\ IF Len(SelectedTemplate) = 4
           THEN /\ Field("Fact") =
                     PyStr(TrimmedJoin(lines, at[FactMarker] + 1, at[ReasonMarker]))
                /\ Field("Reason") =
                     PyStr(TrimmedJoin(lines, at[ReasonMarker] + 1, at[DateMarker]))
           ELSE Field("Fact_and_Reason") =
                  PyStr(TrimmedJoin(lines, at[SecondMarker] + 1, at[DateMarker]))

\* C20 witness: a successful four-marker parse whose lines between the
\* marker lines start with blanks that the sections do not carry.
C20_Witness ==
  /\ pc = "parsed"
  /\ UsableText
  /\ Lines = <<ContentLine, FlagMain, ContentLine, FlagFact, ContentLine,
               FlagReason, ContentLine, DateLine, ContentLine>>
  /\ \A k \in FourSections : Field(k) = PyStr(<<"1">>)

-----------------------------------------------------------------------------
(* _is_parse_result_valid and the steps of process_json_file              *)
(*                                                                         *)
(* The content of a JSON file stands for the value json.load gives for it; *)
(* a dict is a function from its keys to values.                           *)

\* _is_parse_result_valid that checks the main section only
_is_parse_result_valid_MainOnly(parsed_result) ==
  LET d == ValueOf(parsed_result)
  IN IF "error" \in DOMAIN d \/ ~Truthy(Get(d, "pattern", PyNone)) THEN FALSE
     ELSE Strip(ValueOf(Get(d, "Main", PyStr(<<>>)))) # <<>>

_is_parse_result_valid(parsed_result) ==
  LET d == ValueOf(parsed_result)
      pattern == Get(d, "pattern", PyNone)
      main_content == Strip(ValueOf(Get(d, "Main", PyStr(<<>>))))
  IN IF "error" \in DOMAIN d \/ ~Truthy(pattern) THEN FALSE
     ELSE IF main_content = <<>> THEN FALSE
     ELSE IF pattern = PyList(special_four_part_pattern)
       THEN LET fact_content == Strip(ValueOf(Get(d, "Fact", PyStr(<<>>))))
                reason_content == Strip(ValueOf(Get(d, "Reason", PyStr(<<>>))))
            IN ~(fact_content = <<>> \/ reason_content = <<>>)
       ELSE LET fact_reason ==
                  Strip(ValueOf(Get(d, "Fact_and_Reason", PyStr(<<>>))))
            IN fact_reason # <<>>

\* files that cannot be opened or decoded, and files that are not JSON
Unreadable == <<"unreadable", <<>>>>
NotJson == <<"malformed", <<>>>>
\* a path with no file, an empty file, a file cut short while being written
NoFile == <<"nofile", <<>>>>
EmptyFile == <<"emptyfile", <<>>>>
PartialFile == <<"partialfile", <<>>>>

\* with open(file_path) as f: data = json.load(f)
Load(content) ==
  IF content = NoFile THEN Raise("FileNotFoundError")
  ELSE IF content = Unreadable THEN Raise("OSError")
  ELSE IF content \in {NotJson, EmptyFile, PartialFile}
    THEN Raise("JSONDecodeError")
  ELSE content

\* isinstance(item, dict) and 'JFULL' in item
HasJfull(item) == TypeOf(item) = "dict" /\ "JFULL" \in DOMAIN ValueOf(item)

\* del item['JFULL']; item['parsed_judgment'] = parsed
Replaced(item, parsed) ==
  PyDict([key \in (DOMAIN ValueOf(item) \ {"JFULL"}) \cup {"parsed_judgment"} |->
            IF key = "parsed_judgment" THEN parsed ELSE ValueOf(item)[key]])

\* the JFULL values of the input files: documents a template fits with
\* content in every structural section, documents with an empty structural
\* section, a document no template fits, and values that are not a text
GoodFourDoc ==
  <<FlagMain, ContentLine, FlagFact, ContentLine, FlagReason, ContentLine, DateLine>>
GoodThreeDoc == <<FlagMain, ContentLine, Labels[1], ContentLine, DateLine>>
EmptyMainDoc == <<FlagMain, FlagFact, ContentLine, FlagReason, ContentLine, DateLine>>
EmptyFactDoc == <<FlagMain, ContentLine, FlagFact, FlagReason, ContentLine, DateLine>>
EmptyReasonDoc == <<FlagMain, ContentLine, FlagFact, ContentLine, FlagReason, DateLine>>
EmptyLabelDoc == <<FlagMain, ContentLine, Labels[1], DateLine>>
NoMatchDoc == <<ContentLine, FlagFact>>

TextOf(doc) == PyStr(Join(doc, NL))

JfullValues ==
  {TextOf(doc) : doc \in {GoodFourDoc, GoodThreeDoc, EmptyMainDoc, EmptyFactDoc,
                          EmptyReasonDoc, EmptyLabelDoc, NoMatchDoc}}
    \cup {PyNone, PyStr(<<>>)}

\* parse_judgment is a pure function of its argument: its value on the
\* JFULL values of the input files is computed once and looked up afterwards
ParseMemo == [jfull_text \in JfullValues |-> parse_judgment(jfull_text)]

\* self.parse_judgment(item['JFULL'])
Parsed(item) == ParseMemo[ValueOf(item).JFULL]

RECURSIVE TransformItems(_, _)

\* the body of the loop for an item with a full text, parsed: the item is
\* replaced and the loop goes on, or the call returns False
ItemStep(items, k, parsed) ==
  IF _is_parse_result_valid(parsed)
    THEN TransformItems([items EXCEPT ![k] = Replaced(items[k], parsed)], k + 1)
    ELSE <<"return", FALSE>>

\* the loop over the items of a JSON array, from item k on: the array with
\* the items replaced, or the early return
TransformItems(items, k) ==
  IF k > Len(items) THEN <<"data", PyList(items)>>
  ELSE IF HasJfull(items[k]) THEN ItemStep(items, k, Parsed(items[k]))
  ELSE TransformItems(items, k + 1)

\* the branch for a single JSON object with a full text, parsed
ObjectStep(data, parsed) ==
  IF _is_parse_result_valid(parsed)
    THEN <<"data", Replaced(data, parsed)>>
    ELSE <<"return", FALSE>>

\* the branches on the loaded data: <<"data", the data to write>> or
\* <<"return", FALSE>>
Transform(data) ==
  IF TypeOf(data) = "list" THEN TransformItems(ValueOf(data), 1)
  ELSE IF HasJfull(data) THEN ObjectStep(data, Parsed(data))
  ELSE <<"data", data>>

\* Verified that only asks for the output file to exist
Verified_ExistsOnly(output) == output # NoFile

\* os.path.exists(output_path) and os.path.getsize(output_path) > 0
Verified(output) == output # NoFile /\ output # EmptyFile

\* the two callers pass delete_original=True
delete_original == TRUE

\* stats after a call that counts only the processed files
Account_FailureUncounted(stats, returned) ==
  IF returned
    THEN [stats EXCEPT !.processed_files = @ + 1]
    ELSE stats

\* stats after process_json_file has returned
Account(stats, returned) ==
  IF returned
    THEN [stats EXCEPT !.processed_files = @ + 1]
    ELSE [stats EXCEPT !.failed_files = @ + 1]

-----------------------------------------------------------------------------
(* The shards of process_directory_multithreaded *)

files_per_thread(total_files, max_threads_) == total_files \div max_threads_
remainder(total_files, max_threads_) == total_files % max_threads_

\* batch_size that hands the whole remainder to the first thread
batch_size_RemainderToFirst(i, total_files, max_threads_) ==
  files_per_thread(total_files, max_threads_)
    + (IF i = 0 THEN remainder(total_files, max_threads_) ELSE 0)

\* the size of the batch of thread i (0-based)
batch_size(i, total_files, max_threads_) ==
  files_per_thread(total_files, max_threads_)
    + (IF i < remainder(total_files, max_threads_) THEN 1 ELSE 0)

\* the loop for i in range(max_threads), from i on
RECURSIVE MakeBatches(_, _, _, _, _)
MakeBatches(files, max_threads_, i, start_idx, batches) ==
  IF i >= max_threads_ THEN batches
  ELSE LET size == batch_size(i, Len(files), max_threads_)
       IN IF size > 0
            THEN MakeBatches(files, max_threads_, i + 1, start_idx + size,
                             Append(batches, PySlice(files, start_idx, start_idx + size)))
            ELSE MakeBatches(files, max_threads_, i + 1, start_idx, batches)

-----------------------------------------------------------------------------
(* A run over a directory: process_directory_multithreaded(max_threads) or *)
(* process_directory().  A file is known by its index in the directory;    *)
(* fs_in[f] is the content of the input file f and fs_out[f] that of its    *)
(* output file <name>_parsed.json.  The threads interleave at the file      *)
(* operations of process_json_file: load, write, verify, remove.           *)

\* the largest directory of mixed files, the largest directory of files in
\* all, and the largest number of threads
MaxFiles == 2
MaxListing == 7
MaxThreads == 4

\* a JSON object with an identifier and a full text
Record(jfull_text) == PyDict([JID |-> PyStr(<<"1">>), JFULL |-> jfull_text])
\* a JSON object without a full text
RecordWithoutJfull == PyDict([JID |-> PyStr(<<"1">>)])

\* the files of the runs over several files
BatchFiles ==
  {Record(TextOf(GoodFourDoc)), Record(TextOf(EmptyMainDoc)),
   Record(TextOf(NoMatchDoc)), Unreadable}

\* the files of the runs over one file
SingleFiles ==
  {Record(jfull_text) : jfull_text \in JfullValues}
    \cup {Unreadable, NotJson, RecordWithoutJfull, PyInt(5), PyList(<<>>),
          PyList(<<Record(TextOf(GoodFourDoc)), Record(TextOf(GoodThreeDoc))>>),
          PyList(<<Record(TextOf(GoodFourDoc)), Record(TextOf(EmptyLabelDoc))>>),
          PyList(<<Record(TextOf(GoodThreeDoc)), RecordWithoutJfull>>),
          PyList(<<PyInt(5), Record(TextOf(GoodThreeDoc))>>)}

InitBatch ==
  /\ pc = "batch"
  /\ jfull = PyNone
  /\ result = Nothing
  /\ used = NoSelection
  /\ components = Nothing
  /\ rebuilt = Nothing
  /\ NoRound
  /\ NoLocate
  /\ \/ mode = "multithreaded" /\ max_threads \in 1..MaxThreads
     \/ mode = "directory" /\ max_threads = 0
  /\ \/ \E file \in SingleFiles : given = <<file>>
     \/ \E n \in 0..MaxFiles : given \in [1..n -> BatchFiles]
     \/ \E n \in 0..MaxListing : given = [f \in 1..n |-> Unreadable]
  /\ fs_in = given
  /\ fs_out = [f \in DOMAIN given |-> NoFile]
  /\ json_files = <<>>
  /\ file_batches = <<>>
  /\ workers = <<>>
  /\ total_stats = <<>>
  /\ collected = {}
  /\ attempts = [f \in DOMAIN given |-> 0]
  /\ outcome = [f \in DOMAIN given |-> "pending"]

\* a thread about to call process_json_file on the first file of its batch
NewWorker(stats) == [idx |-> 0, step |-> "call", data |-> Nothing, stats |-> stats]

\* process_directory_multithreaded up to the submission of the batches, or
\* its return when there is no file
Shard ==
  /\ pc = "batch"
  /\ mode = "multithreaded"
  /\ json_files' = [f \in DOMAIN fs_in |-> f]
  /\ IF Len(json_files') = 0
       THEN /\ pc' = "returned"
            /\ total_stats' = [total_files |-> 0, processed_files |-> 0,
                               failed_files |-> 0]
            /\ UNCHANGED <<file_batches, workers>>
       ELSE /\ pc' = "running"
            /\ file_batches' = MakeBatches(json_files', max_threads, 0, 0, <<>>)
            /\ total_stats' = [total_files |-> Len(json_files'),
                               processed_files |-> 0, failed_files |-> 0]
            /\ workers' = [w \in DOMAIN file_batches' |->
                             NewWorker([processed_files |-> 0, failed_files |-> 0])]
  /\ UNCHANGED <<parservars, locvars, mode, max_threads, given, fs_in, fs_out,
                 collected, attempts, outcome>>

\* process_directory up to its loop over os.listdir: the calling thread
\* works through the whole listing
ListDirectory ==
  /\ pc = "batch"
  /\ mode = "directory"
  /\ pc' = "running"
  /\ json_files' = [f \in DOMAIN fs_in |-> f]
  /\ file_batches' = <<json_files'>>
  /\ workers' = <<NewWorker([total_files |-> 0, processed_files |-> 0,
                             failed_files |-> 0])>>
  /\ UNCHANGED <<parservars, locvars, mode, max_threads, given, fs_in, fs_out,
                 total_stats, collected, attempts, outcome>>

\* the file a worker is at
CurrentFile(w) == file_batches[w][workers[w].idx + 1]

\* process_json_file has returned to the loop of worker w: the stats are
\* updated and the loop moves on
Returns(w, f, stats, returned) ==
  /\ workers' = [workers EXCEPT ![w] =
                   [idx |-> @.idx + 1, step |-> "call", data |-> Nothing,
                    stats |-> Account(stats, returned)]]
  /\ outcome' = [outcome EXCEPT ![f] = IF returned THEN "True" ELSE "False"]

\* the call of process_json_file on the next file of the batch, through
\* json.load and the branches on the loaded data
ReadAndParse(w) ==
  /\ pc = "running"
  /\ workers[w].step = "call"
  /\ workers[w].idx < Len(file_batches[w])
  /\ \E f \in {CurrentFile(w)},
        stats \in {IF mode = "directory"
                     THEN [workers[w].stats EXCEPT !.total_files = @ + 1]
                     ELSE workers[w].stats} :
       /\ attempts' = [attempts EXCEPT ![f] = @ + 1]
       /\ \E loaded \in {Load(fs_in[f])} :
            IF TypeOf(loaded) = "raise"
              THEN Returns(w, f, stats, FALSE)
              ELSE \E transformed \in {Transform(loaded)} :
                     IF transformed[1] = "return"
                       THEN Returns(w, f, stats, transformed[2])
                       ELSE /\ workers' = [workers EXCEPT ![w] =
                                             [@ EXCEPT !.step = "loaded",
                                                       !.data = transformed[2],
                                                       !.stats = stats]]
                            /\ UNCHANGED outcome
  /\ UNCHANGED <<pc, parservars, locvars, mode, max_threads, given, fs_in, fs_out,
                 json_files, file_batches, total_stats, collected>>

\* what can become of the write: the file is written; open fails; json.dump
\* fails after the file was opened; the file is found empty afterwards
WriteOutcomes == {"written", "open fails", "dump fails", "left empty"}

\* with open(output_path, 'w') as f: json.dump(data, f, ...)
WriteOutput(w) ==
  /\ pc = "running"
  /\ workers[w].step = "loaded"
  /\ \E f \in {CurrentFile(w)}, how \in WriteOutcomes :
       CASE how = "written" ->
              /\ fs_out' = [fs_out EXCEPT ![f] = workers[w].data]
              /\ workers' = [workers EXCEPT ![w].step = "written"]
              /\ UNCHANGED outcome
         [] how = "left empty" ->
              /\ fs_out' = [fs_out EXCEPT ![f] = EmptyFile]
              /\ workers' = [workers EXCEPT ![w].step = "written"]
              /\ UNCHANGED outcome
         [] how = "open fails" ->
              /\ UNCHANGED fs_out
              /\ Returns(w, f, workers[w].stats, FALSE)
         [] how = "dump fails" ->
              /\ fs_out' = [fs_out EXCEPT ![f] = PartialFile]
              /\ Returns(w, f, workers[w].stats, FALSE)
  /\ UNCHANGED <<pc, parservars, locvars, mode, max_threads, given, fs_in,
                 json_files, file_batches, total_stats, collected, attempts>>

\* if os.path.exists(output_path) and os.path.getsize(output_path) > 0
VerifyOutput(w) ==
  /\ pc = "running"
  /\ workers[w].step = "written"
  /\ \E f \in {CurrentFile(w)} :
       IF Verified(fs_out[f])
         THEN IF delete_original
                THEN /\ workers' = [workers EXCEPT ![w].step = "verified"]
                     /\ UNCHANGED outcome
                ELSE Returns(w, f, workers[w].stats, TRUE)
         ELSE Returns(w, f, workers[w].stats, FALSE)
  /\ UNCHANGED <<pc, parservars, locvars, mode, max_threads, given, fs_in, fs_out,
                 json_files, file_batches, total_stats, collected, attempts>>

\* os.remove(file_path) and return True, or the exception os.remove raises
RemoveOriginal(w) ==
  /\ pc = "running"
  /\ workers[w].step = "verified"
  /\ \E f \in {CurrentFile(w)}, removed \in BOOLEAN :
       IF removed
         THEN /\ fs_in' = [fs_in EXCEPT ![f] = NoFile]
              /\ Returns(w, f, workers[w].stats, TRUE)
         ELSE /\ UNCHANGED fs_in
              /\ Returns(w, f, workers[w].stats, FALSE)
  /\ UNCHANGED <<pc, parservars, locvars, mode, max_threads, given, fs_out,
                 json_files, file_batches, total_stats, collected, attempts>>

\* _process_file_batch returns its stats: the future of worker w completes
FinishBatch(w) ==
  /\ pc = "running"
  /\ mode = "multithreaded"
  /\ workers[w].step = "call"
  /\ workers[w].idx = Len(file_batches[w])
  /\ workers' = [workers EXCEPT ![w].step = "returned"]
  /\ UNCHANGED <<pc, parservars, locvars, mode, max_threads, given, fs_in, fs_out,
                 json_files, file_batches, total_stats, collected, attempts,
                 outcome>>

\* the loop over as_completed takes the result of a completed future
Collect(w) ==
  /\ pc = "running"
  /\ mode = "multithreaded"
  /\ workers[w].step = "returned"
  /\ w \notin collected
  /\ collected' = collected \cup {w}
  /\ total_stats' =
       [total_stats EXCEPT
          !.processed_files = @ + workers[w].stats.processed_files,
          !.failed_files = @ + workers[w].stats.failed_files]
  /\ UNCHANGED <<pc, parservars, locvars, mode, max_threads, given, fs_in, fs_out,
                 json_files, file_batches, workers, attempts, outcome>>

\* process_directory_multithreaded returns total_stats
ReturnTotals ==
  /\ pc = "running"
  /\ mode = "multithreaded"
  /\ collected = DOMAIN workers
  /\ pc' = "returned"
  /\ UNCHANGED <<parservars, locvars, batchvars>>

\* process_directory returns its stats
ReturnStats ==
  /\ pc = "running"
  /\ mode = "directory"
  /\ workers[1].step = "call"
  /\ workers[1].idx = Len(file_batches[1])
  /\ pc' = "returned"
  /\ total_stats' = workers[1].stats
  /\ UNCHANGED <<parservars, locvars, mode, max_threads, given, fs_in, fs_out,
                 json_files, file_batches, workers, collected, attempts, outcome>>

NextBatch ==
  \/ Shard
  \/ ListDirectory
  \/ \E w \in DOMAIN workers :
       \/ ReadAndParse(w)
       \/ WriteOutput(w)
       \/ VerifyOutput(w)
       \/ RemoveOriginal(w)
       \/ FinishBatch(w)
       \/ Collect(w)
  \/ ReturnTotals
  \/ ReturnStats

SpecBatch == InitBatch /\ [][NextBatch]_vars

-----------------------------------------------------------------------------
(* Properties of a run over a directory *)

\* the files of the directory, and the file names in listing order
Files == DOMAIN given
Listing == [f \in Files |-> f]

\* process_directory_multithreaded has made its shards (or returned)
Sharded == mode = "multithreaded" /\ pc \in {"running", "returned"}

RECURSIVE Concatenation(_)
Concatenation(shards) ==
  IF shards = <<>> THEN <<>> ELSE Head(shards) \o Concatenation(Tail(shards))

\* the shards are contiguous and non-overlapping and hold every file once:
\* laid end to end they are the listing
ContiguousCover == Concatenation(file_batches) = Listing

SizesWithinOne ==
  \A a \in DOMAIN file_batches, b \in DOMAIN file_batches :
    Len(file_batches[a]) <= Len(file_batches[b]) + 1

Smaller(a, b) == IF a < b THEN a ELSE b

\* C13 as stated: N files and K workers give exactly K contiguous,
\* non-overlapping shards whose sizes differ by at most one and add up to N,
\* for N < K and N = 0 as well.
C13_ExactlyKShards ==
  Sharded =>
    /\ Len(file_batches) = max_threads
    /\ ContiguousCover
    /\ SizesWithinOne

\* C13 amended: N files and K workers give exactly min(N, K) shards, none
\* empty, contiguous and non-overlapping, whose sizes differ by at most one
\* and add up to N.
C13_MinOfNAndKShards ==
  Sharded =>
    /\ Len(file_batches) = Smaller(Len(given), max_threads)
    /\ \A a \in DOMAIN file_batches : file_batches[a] # <<>>
    /\ ContiguousCover
    /\ SizesWithinOne

\* C13 witness: seven files over three workers, in shards of three, two and
\* two.
C13_Witness ==
  /\ mode = "multithreaded"
  /\ pc = "running"
  /\ max_threads = 3
  /\ file_batches = << <<1, 2, 3>>, <<4, 5>>, <<6, 7>> >>

\* the input file is gone
Removed(f) == fs_in[f] = NoFile

\* the output file holds the data written for the file
WrittenOutput(f) == fs_out[f] \notin {NoFile, EmptyFile, PartialFile}

\* some worker has verified the output of the file and not yet returned
VerifiedBy(f) ==
  \E w \in DOMAIN workers :
    /\ workers[w].idx < Len(file_batches[w])
    /\ CurrentFile(w) = f
    /\ workers[w].step = "verified"

\* C14: a source file is removed only by a step that follows the writing of
\* its output and the check that the output exists and is not empty; in
\* every execution, whatever step fails, a removed source has a written,
\* non-empty output.
C14_DeleteOnlyAfterVerifiedOutput ==
  /\ [](\A f \in Files : Removed(f) => WrittenOutput(f))
  /\ [][\A f \in Files :
          (~Removed(f) /\ fs_in'[f] = NoFile)
            => /\ WrittenOutput(f)
               /\ VerifiedBy(f)
               /\ fs_out'[f] = fs_out[f]]_vars

\* C14 witness: a finished run in which one source was removed after its
\* output was written and one source was kept because its output was found
\* empty.
C14_Witness ==
  /\ pc = "returned"
  /\ \E f \in Files, g \in Files :
       /\ Removed(f) /\ WrittenOutput(f) /\ outcome[f] = "True"
       /\ fs_out[g] = EmptyFile /\ fs_in[g] = given[g] /\ outcome[g] = "False"

\* the run has returned its counts
Completed == mode \in {"multithreaded", "directory"} /\ pc = "returned"

\* C15: in a run of process_directory_multithreaded (any worker count, any
\* interleaving) or process_directory, no file is attempted twice, the run
\* can always go on until it has returned, and when it has returned every
\* file was attempted once, whatever the other files did, and
\* processed_files + failed_files = total_files = the number of files.
C15_EveryFileOnceCountsAddUp ==
  /\ \A f \in Files : attempts[f] <= 1
  /\ (mode \in {"multithreaded", "directory"} /\ pc # "returned")
       => ENABLED NextBatch
  /\ Completed =>
       /\ \A f \in Files : attempts[f] = 1 /\ outcome[f] # "pending"
       /\ total_stats.total_files = Len(given)
       /\ total_stats.processed_files =
            Cardinality({f \in Files : outcome[f] = "True"})
       /\ total_stats.processed_files + total_stats.failed_files
            = total_stats.total_files

\* C15 witness: a finished multithreaded run in which a worker's batch held
\* a file that failed and, after it, a file that was processed.
C15_Witness ==
  /\ mode = "multithreaded"
  /\ pc = "returned"
  /\ \E w \in DOMAIN file_batches :
       \E i \in DOMAIN file_batches[w], j \in DOMAIN file_batches[w] :
         /\ i < j
         /\ outcome[file_batches[w][i]] = "False"
         /\ outcome[file_batches[w][j]] = "True"
  /\ total_stats.failed_files >= 1
  /\ total_stats.processed_files >= 1

\* a parse the batch accepts, as the design states it: no error tag, a
\* template, and no empty structural section
Acceptable(parsed) ==
  /\ "error" \notin DOMAIN ValueOf(parsed)
  /\ ValueOf(parsed).pattern # PyNone
  /\ ValueOf(parsed).Main # EmptyText
  /\ IF ValueOf(parsed).pattern = PyList(FourMarkerTemplate)
       THEN ValueOf(parsed).Fact # EmptyText /\ ValueOf(parsed).Reason # EmptyText
       ELSE ValueOf(parsed).Fact_and_Reason # EmptyText

\* the records of a JSON value: the object itself, or the objects of an array
RecordList(value) ==
  IF TypeOf(value) = "dict" THEN <<value>>
  ELSE IF TypeOf(value) = "list" THEN SelectSeq(ValueOf(value), LAMBDA item : TypeOf(item) = "dict")
  ELSE <<>>

\* the documents of a file: the full texts of its records
DocumentsOf(content) ==
  IF content \in {Unreadable, NotJson} THEN {}
  ELSE {ValueOf(RecordList(content)[i]).JFULL :
          i \in {k \in DOMAIN RecordList(content) :
                   "JFULL" \in DOMAIN ValueOf(RecordList(content)[k])}}

\* the file holds a document whose parse the validity check rejects
HoldsRejectedDocument(f) ==
  \E document \in DocumentsOf(given[f]) : ~Acceptable(ParseMemo[document])

\* C16: for a file holding a document whose parse has an error tag, no
\* template or an empty structural section (main; fact and reason for
\* four-marker; fact-and-reason for three-marker), process_json_file returns
\* False, the source file stays as it was and no output file is written.
C16_RejectedDocumentFailsFile ==
  \A f \in Files :
    HoldsRejectedDocument(f) =>
      /\ outcome[f] # "True"
      /\ fs_in[f] = given[f]
      /\ fs_out[f] = NoFile
      /\ attempts[f] = 1 => outcome[f] = "False"

\* C16 witness: the call has returned False for an array whose first
\* document is accepted and whose second has an empty fact-and-reason
\* section; the source is in place and there is no output.
C16_Witness ==
  /\ given = <<PyList(<<Record(TextOf(GoodFourDoc)), Record(TextOf(EmptyLabelDoc))>>)>>
  /\ outcome[1] = "False"
  /\ fs_in[1] = given[1]
  /\ fs_out[1] = NoFile

\* C17: whenever process_json_file has returned True for a file, the records
\* of the output are those of the input in the same order, each without
\* JFULL, with parsed_judgment holding the accepted parse of its JFULL, and
\* with every other field as it was; no file succeeds with a record that
\* lacks parsed_judgment.
C17_OutputRecordsCarryParse ==
  \A f \in Files :
    outcome[f] = "True" =>
      \A before \in {RecordList(given[f])}, after \in {RecordList(fs_out[f])} :
        /\ Len(after) = Len(before)
        /\ \A i \in DOMAIN after :
             /\ "JFULL" \in DOMAIN ValueOf(before[i])
             /\ DOMAIN ValueOf(after[i]) =
                  (DOMAIN ValueOf(before[i]) \ {"JFULL"}) \cup {"parsed_judgment"}
             /\ ValueOf(after[i]).parsed_judgment =
                  ParseMemo[ValueOf(before[i]).JFULL]
             /\ Acceptable(ValueOf(after[i]).parsed_judgment)
             /\ \A key \in DOMAIN ValueOf(before[i]) \ {"JFULL", "parsed_judgment"} :
                  ValueOf(after[i])[key] = ValueOf(before[i])[key]

-----------------------------------------------------------------------------
(* The parser applied to a text the reconstructor made, and the            *)
(* reconstructor applied again:                                            *)
(*   result = parse_judgment(jfull); rebuilt = reconstruct_judgment(result) *)
(*   reparsed = parse_judgment(rebuilt)                                     *)
(*   rebuilt_again = reconstruct_judgment(reparsed)                         *)

\* reparsed = parser.parse_judgment(rebuilt)
Reparse ==
  /\ pc = "rebuilt"
  /\ pc' = "reparsed"
  /\ reparsed' = parse_judgment(rebuilt)
  /\ UNCHANGED <<jfull, result, used, components, rebuilt, rebuilt_again,
                 locvars, batchvars>>

\* rebuilt_again = parser.reconstruct_judgment(reparsed)
ReconstructAgain ==
  /\ pc = "reparsed"
  /\ pc' = "rebuilt again"
  /\ rebuilt_again' = reconstruct_judgment(reparsed)
  /\ UNCHANGED <<jfull, result, used, components, rebuilt, reparsed,
                 locvars, batchvars>>

NextRoundTrip == Parse \/ Reconstruct \/ Reparse \/ ReconstructAgain

SpecRoundTrip == Init /\ [][NextRoundTrip]_vars

\* the first parse was of a text and selected a template
FirstParseSucceeded ==
  /\ UsableText
  /\ TypeOf(result) = "dict"
  /\ Field("pattern") # PyNone

\* the second parse has returned
Reparsed == pc \in {"reparsed", "rebuilt again"}

\* the second parse selected the template of the first and returned, under
\* the same keys, the same section contents
SameTemplateAndSections ==
  /\ TypeOf(reparsed) = "dict"
  /\ DOMAIN ValueOf(reparsed) = DOMAIN ValueOf(result)
  /\ ValueOf(reparsed)["pattern"] = Field("pattern")
  /\ \A name \in DOMAIN ValueOf(result) : ValueOf(reparsed)[name] = Field(name)

\* C21: whenever parse_judgment parses a document successfully into a
\* result, parsing the text reconstruct_judgment makes of that result
\* succeeds again and yields the same template and the same section
\* contents, and reconstructing the second result gives the reconstructed
\* text again.
C21_ParseAfterReconstructIsIdentity ==
  /\ (Reparsed /\ FirstParseSucceeded) => SameTemplateAndSections
  /\ (pc = "rebuilt again" /\ FirstParseSucceeded) => rebuilt_again = rebuilt

\* a successfully parsed document with text after the date line, whose
\* reconstruction differs from the document, parsed and reconstructed again
C21_Witness ==
  /\ pc = "rebuilt again"
  /\ FirstParseSucceeded
  /\ rebuilt # jfull
  /\ Field("Main") # EmptyText
  /\ Field("Post_Information") # EmptyText
  /\ SameTemplateAndSections
  /\ rebuilt_again = rebuilt

-----------------------------------------------------------------------------
(* check_if_flag_exists and get_matched_flags: the existence check of the  *)
(* markers over the whole text.  flags_config['necessary_flags'] maps a    *)
(* category to its list of flags; necessary_flags below is the sequence of *)
(* these lists in the order of the dict.                                   *)

\* re.search(pattern, s, flags) is not None: a match from some index
ReSearch(p, s, flags) ==
  \E i \in 1..(Len(s) + 1) : ReMatchFrom(p, 1, s, i, flags)

\* pattern, as the loop over the flags of a category builds it
ExistencePattern(flag) ==
  IF flag = FlagDate
    THEN <<Bol, WsStar>> \o JoinChars(<<"zhong", "hua", "min", "guo">>)
           \o <<DotLazy>> \o JoinChars(<<"nian">>)
           \o <<DotLazy>> \o JoinChars(<<"yue">>)
           \o <<DotLazy>> \o JoinChars(<<"ri">>)
           \o <<WsStar, Eol>>
    ELSE <<Bol, WsStar>> \o JoinChars(flag)
           \o <<WsStar, Opt(Colons), WsStar, Eol>>

\* re.search(pattern, judgment_content, re.MULTILINE | re.DOTALL)
SearchContent(flag, judgment_content) ==
  ReSearch(ExistencePattern(flag), judgment_content, {"MULTILINE", "DOTALL"})

\* check_if_flag_exists searching without re.MULTILINE | re.DOTALL
check_if_flag_exists_NoFlags(judgment_content, necessary_flags) ==
  \A k \in DOMAIN necessary_flags :
    \E n \in DOMAIN necessary_flags[k] :
      ReSearch(ExistencePattern(necessary_flags[k][n]), judgment_content, {})

\* True when every category has a flag that is found, False at the first
\* category that has none
check_if_flag_exists(judgment_content, necessary_flags) ==
  \A k \in DOMAIN necessary_flags :
    \E n \in DOMAIN necessary_flags[k] :
      SearchContent(necessary_flags[k][n], judgment_content)

\* category_matched_flags after the loop over flag_list
CategoryMatchedFlags(judgment_content, flag_list) ==
  SelectSeq(flag_list, LAMBDA flag : SearchContent(flag, judgment_content))

\* matched_flags.extend(category_matched_flags), category after category
RECURSIVE ExtendAll(_, _)
ExtendAll(judgment_content, necessary_flags) ==
  IF necessary_flags = <<>> THEN <<>>
  ELSE CategoryMatchedFlags(judgment_content, Head(necessary_flags))
         \o ExtendAll(judgment_content, Tail(necessary_flags))

\* [] at the first category without a match, else the matched flags of
\* every category
get_matched_flags(judgment_content, necessary_flags) ==
  IF \E k \in DOMAIN necessary_flags :
       CategoryMatchedFlags(judgment_content, necessary_flags[k]) = <<>>
    THEN <<>>
    ELSE ExtendAll(judgment_content, necessary_flags)

-----------------------------------------------------------------------------
(* The locator and the existence check applied to the same text:           *)
(*   lines = text.split('\n')                                              *)
(*   positions = parser._find_pattern_positions(lines, flags)               *)
(*   check_if_flag_exists(text, {'necessary_flags': {flag: [flag]}})        *)
(*   get_matched_flags(text, {'necessary_flags': {flag: [flag], ...}})      *)

MaxTextChars == 5
MaxTextLines == 3

\* the characters of the short texts: those of the operative-holding
\* marker, a blank, the line break, a colon and a digit
TextAlphabet == {"zhu", "wen", " ", NL, ":", "1"}

\* every text of at most MaxTextChars characters
CharTexts == UNION {[1..n -> TextAlphabet] : n \in 0..MaxTextChars}

\* whole marker lines, and lines that hold a part of a marker
PieceLines ==
  { FlagMain, <<"zhu">>, <<"wen", ":">>, FuzzyFactLine, ContentLine, DateLine,
    <<"zhong", "hua", "min", "guo", "1", "nian">>, <<"2", "yue", "ri">> }

\* every text of at most MaxTextLines lines over PieceLines
LineTexts ==
  {Join(doc, NL) : doc \in UNION {[1..n -> PieceLines] : n \in 1..MaxTextLines}}

\* the markers asked for on the texts made of lines
TextRequests ==
  {<<FlagMain>>, <<FlagDate>>, <<FlagMain, FlagDate>>, <<FlagFact, FlagMain>>,
   special_four_part_pattern}

InitPresence ==
  /\ pc = "text"
  /\ jfull = PyNone
  /\ result = Nothing
  /\ used = NoSelection
  /\ components = Nothing
  /\ rebuilt = Nothing
  /\ NoRound
  /\ loc_lines = <<>>
  /\ \/ \E text \in CharTexts :
          chk_content = PyStr(text) /\ loc_flags = <<FlagMain>>
     \/ \E text \in LineTexts, flags \in TextRequests :
          chk_content = PyStr(text) /\ loc_flags = flags
  /\ loc_positions = Nothing
  /\ chk_present = Nothing
  /\ chk_matched = Nothing
  /\ NoBatch

\* lines = jfull_text.split('\n')
SplitLines ==
  /\ pc = "text"
  /\ pc' = "locate"
  /\ loc_lines' = Split(ValueOf(chk_content), NL)
  /\ UNCHANGED <<jfull, result, used, components, rebuilt, roundvars,
                 loc_flags, loc_positions, presencevars, batchvars>>

\* the flags of the request, each a category of its own
OwnCategories(flags) == [k \in DOMAIN flags |-> <<flags[k]>>]

\* check_if_flag_exists for each marker asked for, and get_matched_flags
\* for all of them
CheckFlags ==
  /\ pc = "located"
  /\ pc' = "checked"
  /\ chk_present' =
       [flag \in Requested |->
          check_if_flag_exists(ValueOf(chk_content), <<<<flag>>>>)]
  /\ chk_matched' =
       PyList(get_matched_flags(ValueOf(chk_content), OwnCategories(loc_flags)))
  /\ UNCHANGED <<jfull, result, used, components, rebuilt, roundvars,
                 loc_lines, loc_flags, loc_positions, chk_content, batchvars>>

NextPresence == SplitLines \/ Locate \/ CheckFlags

SpecPresence == InitPresence /\ [][NextPresence]_vars

\* both checks have returned
Checked == pc = "checked"

\* the markers the locator found a position for
LocatedFlags == DOMAIN loc_positions

\* C22: for every marker and every text, if _find_pattern_positions finds a
\* position for the marker on the lines of the text, then
\* check_if_flag_exists reports the marker present in the text; and when
\* every marker asked for has a position, get_matched_flags lists each.
C22_LocatedImpliesPresent ==
  Checked =>
    /\ \A flag \in LocatedFlags : chk_present[flag]
    /\ LocatedFlags = Requested =>
         \A flag \in Requested :
           \E n \in DOMAIN ValueOf(chk_matched) : ValueOf(chk_matched)[n] = flag

\* a text of several lines in which one marker is located on a line after
\* the first and reported present, and another marker is reported present
\* although no line matches its rule (the converse fails)
C22_Witness ==
  /\ Checked
  /\ \E flag \in LocatedFlags : loc_positions[flag] > 0 /\ chk_present[flag]
  /\ \E flag \in Requested \ LocatedFlags : chk_present[flag]

====
